---- MODULE Spec2Model ----
(***************************************************************************)
(* Model of the size-targeting compression engine of image-converter,      *)
(* src/src/utils/imageProcessor.ts (class ImageProcessor).                 *)
(*                                                                         *)
(* One request compressToTargetSize(file, targetSizeKB, format) is         *)
(* modelled as a chain of asynchronous steps (the async call chain) next   *)
(* to the promise handed to the caller (outcome/result/rejection) and the  *)
(* timers armed by timeoutPromise.  The browser is the environment: every  *)
(* decode (createImageBitmap) completes, fails or never completes, every   *)
(* getContext returns a context or null, every toBlob callback delivers a  *)
(* blob of some size or null.                                              *)
(*                                                                         *)
(* Real numbers of the source are fixed point: scales and qualities are    *)
(* thousandths (ScaleDen), byte sizes are integers, Math.sqrt is the       *)
(* integer square root of the scaled ratio.                                *)
(*                                                                         *)
(* Two further specifications model the callers of the engine.  CallerSpec *)
(* is the processing component the page mounts for the files handed to it  *)
(* (src/src/components/ImageProcessor.tsx for one file, BatchProcessor.tsx *)
(* for several); a compressToTargetSize call is an in-flight request that  *)
(* the engine settles with a success, a failure result or a rejection, or  *)
(* never.  UploadSpec is the path of the files from the page and the       *)
(* uploader (src/unnamed/part_003, ImageUploader.tsx) to the engine; files *)
(* are counted by kind (valid, wrong MIME type, over 10MB).                *)
(***************************************************************************)
EXTENDS Integers, Sequences, FiniteSets, TLC

\* -------------------------------------------------------------------------
\* Bounds of the model
\* -------------------------------------------------------------------------
MaxTargetKB == 2
SizeStep == 512
MaxSizeSteps == 5
MaxImages == 2
MaxRetriesInFlight == 1
MaxPicked == 2
MaxListed == 12

TargetKBs == 1..MaxTargetKB
Sizes == {k * SizeStep : k \in 1..MaxSizeSteps}
Dims == {<<2, 1>>, <<400, 300>>}
MimeTypes == {"image/png", "image/jpeg"}
Formats == {"original", "webp"}

\* -------------------------------------------------------------------------
\* Program constants
\* -------------------------------------------------------------------------
ScaleDen == 1000
BytesPerKB == 1024
MaxQualityAttempts == 10
MaxResizeAttempts == 5
DefaultInitialScale == 900
MinScale == 100
MaxNextScale == 900
MaxUpScale == 1500
UpscaleMinDim == 100
InitialQualityWebp == 950
InitialQualityOriginal == 700
OvercorrectionQualityLimit == 950
MaxQuality == 990
FirstStepQualityFloor == 500
FirstStepQualityFloorWebp == 750
QualityFloor == 300
QualityFloorWebp == 600
MaxBatchFiles == 10

VARIABLES
  file,          \* the source File of the request
  targetSizeKB,  \* the requested budget
  format,        \* 'original' | 'webp'
  pc,            \* position of the asynchronous call chain
  phase,         \* last phase the chain has entered
  quality,       \* recursiveCompression: quality of the current attempt
  attempt,       \* recursiveCompression: attempt
  cur,           \* resize*UntilTargetSize: file of the current level
  initialScale,  \* resize*UntilTargetSize: initialScale of the current level
  attemptCount,  \* resize*UntilTargetSize: attemptCount of the current level
  canvas,        \* <<width, height>> of the last canvas drawn (<<>>: none)
  outcome,       \* promise returned to the caller: pending/resolved/rejected
  result,        \* the ProcessedImage the promise resolved with
  rejection,     \* the message of the Error the promise rejected with
  timer60,       \* timer of the top-level timeoutPromise
  timers20,      \* levels whose resize timeoutPromise timer is armed
  urls,          \* object URLs created and not revoked
  peakLive,      \* largest number of URLs that were live at one instant
  \* the processing component (ImageProcessor / BatchProcessor)
  imageFiles,        \* props: the files handed to the component
  selectedFormat,    \* state: 'original' | 'webp'
  isProcessing,      \* state
  processedImage,    \* ImageProcessor state: ProcessedImage | null
  processingImages,  \* BatchProcessor state: ProcessingImage[]
  allCompleted,      \* BatchProcessor state
  completedCount,    \* handleCompressAll: local counter of the running batch
  inFlight,          \* per index: the pending call of the compress button
  retryInFlight,     \* per index: the pending call of handleRetryImage
  failedRequest,     \* per index: the request whose failure is displayed
                     \* (NoCall while the image shows no error)
  \* the page and the uploader (files counted by kind)
  homeSelectedFiles,     \* Home state selectedFiles
  homeProcessingImages,  \* Home state processingImages
  selectedFiles,         \* ImageUploader state selectedFiles
  handed                 \* files passed to compressToTargetSize by a click

inputs == <<file, targetSizeKB, format>>
chain == <<pc, phase, quality, attempt, cur, initialScale, attemptCount>>
request == <<outcome, result, rejection, timer60, timers20>>
caller == <<imageFiles, selectedFormat, isProcessing, processedImage,
            processingImages, allCompleted, completedCount, inFlight,
            retryInFlight, failedRequest>>
upload == <<homeSelectedFiles, homeProcessingImages, selectedFiles, handed>>
engine == <<file, targetSizeKB, format, pc, phase, quality, attempt, cur,
            initialScale, attemptCount, canvas, outcome, result, rejection,
            timer60, timers20, urls, peakLive>>
vars == <<file, targetSizeKB, format, pc, phase, quality, attempt, cur,
          initialScale, attemptCount, canvas, outcome, result, rejection,
          timer60, timers20, urls, peakLive,
          imageFiles, selectedFormat, isProcessing, processedImage,
          processingImages, allCompleted, completedCount, inFlight,
          retryInFlight, failedRequest,
          homeSelectedFiles, homeProcessingImages, selectedFiles, handed>>

\* -------------------------------------------------------------------------
\* Arithmetic
\* -------------------------------------------------------------------------
Min(a, b) == IF a <= b THEN a ELSE b
Max(a, b) == IF a >= b THEN a ELSE b

RECURSIVE SqrtBetween(_, _, _)
SqrtBetween(n, lo, hi) ==
  IF lo >= hi THEN lo
  ELSE LET mid == (lo + hi + 1) \div 2
       IN  IF mid * mid <= n THEN SqrtBetween(n, mid, hi)
           ELSE SqrtBetween(n, lo, mid - 1)

\* Math.sqrt(targetSizeKB / sizeKB) in thousandths, sizeKB = size / 1024
SqrtRatio(target, size) ==
  SqrtBetween(((target * BytesPerKB * ScaleDen) \div size) * ScaleDen,
              0, 64 * ScaleDen)

\* -------------------------------------------------------------------------
\* Files, names and results
\* -------------------------------------------------------------------------
NoFile == [id |-> 0, size |-> 0, type |-> "", name |-> <<>>, w |-> 0, h |-> 0]
NoResult == [status |-> "none", url |-> 0, file |-> NoFile, width |-> 0,
             height |-> 0, size |-> 0, error |-> ""]

SourceName(type) ==
  IF type = "image/png" THEN <<"photo", "png">> ELSE <<"photo", "jpg">>

\* faulty variant of WebpName: the extension of the source is kept
WebpNameKeepsExtension(name) == name

\* `${file.name.split('.')[0]}.webp`
WebpName(name) == <<name[1], "webp">>

\* faulty variant of MimeTypeOf: every candidate is encoded as WebP
MimeTypeOfAlwaysWebp(f) == "image/webp"

\* format === 'webp' ? 'image/webp' : file.type
MimeTypeOf(f) == IF format = "webp" THEN "image/webp" ELSE f.type
NewFileName(f) == IF format = "webp" THEN WebpName(f.name) ELSE f.name

\* Blobs are named by the place that creates them: a request creates at most
\* one blob per quality attempt and one per resize level.
QualityBlobId(a) == a + 1
ResizeBlobId(n) == MaxQualityAttempts + 2 + n

\* URL.createObjectURL(f): a fresh URL per blob (0 is the empty string)
UrlOf(f) == f.id + 1

\* faulty variant of Revoke: the URL of a rejected candidate stays live
RevokeNothing(live, u) == live

\* URL.revokeObjectURL(u) when the live URLs are `live`
Revoke(live, u) == live \ {u}

\* the live URLs after a createObjectURL call are `live`
Created(live) == peakLive' = Max(peakLive, Cardinality(live))

\* new File([blob], name, {type}) for blob n, drawn on a w x h canvas
NewFile(n, size, type, name, w, h) ==
  [id |-> n, size |-> size, type |-> type, name |-> name, w |-> w, h |-> h]

SuccessResult(u, f, w, h) ==
  [status |-> "success", url |-> u, file |-> f, width |-> w, height |-> h,
   size |-> f.size, error |-> ""]

\* faulty variant of ErrorResult: the dimensions are not reset
ErrorResultKeepsDims(f, msg) ==
  [status |-> "error", url |-> 0, file |-> f, width |-> f.w, height |-> f.h,
   size |-> f.size, error |-> msg]

ErrorResult(f, msg) ==
  [status |-> "error", url |-> 0, file |-> f, width |-> 0, height |-> 0,
   size |-> f.size, error |-> msg]

\* faulty variant of IsPngPath: PNG sources take the quality search
IsPngPathNever == FALSE

\* file.type === 'image/png' && format === 'original'
IsPngPath == file.type = "image/png" /\ format = "original"

\* faulty variant of FitsBudget: strict comparison
FitsBudgetStrict(size) == size < targetSizeKB * BytesPerKB

\* faulty variant of FitsBudget: compares whole kilobytes
FitsBudgetWholeKB(size) == size \div BytesPerKB <= targetSizeKB

\* file.size <= targetSizeKB * 1024
FitsBudget(size) == size <= targetSizeKB * BytesPerKB
\* resultSizeKB < targetSizeKB * 0.5
TooSmall(size) == 2 * size < targetSizeKB * BytesPerKB

\* -------------------------------------------------------------------------
\* Values of the callers
\* -------------------------------------------------------------------------
\* no pending compressToTargetSize call
NoCall == [file |-> 0, target |-> 0, format |-> ""]
\* compressToTargetSize(f, t, fmt)
Call(f, t, fmt) == [file |-> f, target |-> t, format |-> fmt]

\* processed: null / processedImage: null
NoProcessed == [status |-> "none", src |-> 0, size |-> 0]

\* a list of files by kind: valid, wrong MIME type, larger than 10MB
NoFiles == [ok |-> 0, badtype |-> 0, toobig |-> 0]

\* no processing component is mounted
CallerIdle ==
  /\ imageFiles = <<>>
  /\ selectedFormat = "original"
  /\ isProcessing = FALSE
  /\ processedImage = NoProcessed
  /\ processingImages = <<>>
  /\ allCompleted = FALSE
  /\ completedCount = 0
  /\ inFlight = <<>>
  /\ retryInFlight = <<>>
  /\ failedRequest = <<>>

\* the page as first rendered
UploadIdle ==
  /\ homeSelectedFiles = NoFiles
  /\ homeProcessingImages = NoFiles
  /\ selectedFiles = NoFiles
  /\ handed = NoFiles

\* no request is running in the engine
EngineIdle ==
  /\ file = NoFile
  /\ targetSizeKB = 0
  /\ format = ""
  /\ pc = "idle"
  /\ phase = "Start"
  /\ quality = 0
  /\ attempt = 0
  /\ cur = NoFile
  /\ initialScale = 0
  /\ attemptCount = 0
  /\ canvas = <<>>
  /\ outcome = "pending"
  /\ result = NoResult
  /\ rejection = ""
  /\ timer60 = "off"
  /\ timers20 = {}
  /\ urls = {}
  /\ peakLive = 0

\* -------------------------------------------------------------------------
\* Initial state
\* -------------------------------------------------------------------------
Init ==
  /\ CallerIdle
  /\ UploadIdle
  /\ targetSizeKB \in TargetKBs
  /\ format \in Formats
  /\ \E t \in MimeTypes, s \in Sizes, d \in Dims :
       file = [id |-> 0, size |-> s, type |-> t, name |-> SourceName(t),
               w |-> d[1], h |-> d[2]]
  /\ pc = "start"
  /\ phase = "Start"
  /\ quality = 0
  /\ attempt = 0
  /\ cur = NoFile
  /\ initialScale = 0
  /\ attemptCount = 0
  /\ canvas = <<>>
  /\ outcome = "pending"
  /\ result = NoResult
  /\ rejection = ""
  /\ timer60 = "off"
  /\ timers20 = {}
  /\ urls = {}
  /\ peakLive = 0


\* -------------------------------------------------------------------------
\* Promise plumbing
\* -------------------------------------------------------------------------
\* The call chain ends with the value v.  The value travels through every
\* enclosing timeoutPromise (each clears its timer) and resolves the promise
\* of the request unless a timer has rejected it before.
Settle(v) ==
  /\ outcome' = IF outcome = "pending" THEN "resolved" ELSE outcome
  /\ result' = IF outcome = "pending" THEN v ELSE result
  /\ rejection' = rejection
  /\ timer60' = IF timer60 = "armed" THEN "off" ELSE timer60
  /\ timers20' = {}

\* The call chain ends with a thrown Error.  `return this.timeoutPromise(..)`
\* inside the try blocks is not awaited, so no catch block sees the
\* rejection: it travels up to the promise of the request.
Fail(msg) ==
  /\ outcome' = IF outcome = "pending" THEN "rejected" ELSE outcome
  /\ rejection' = IF outcome = "pending" THEN msg ELSE rejection
  /\ result' = result
  /\ timer60' = IF timer60 = "armed" THEN "off" ELSE timer60
  /\ timers20' = {}

\* -------------------------------------------------------------------------
\* Calls (the synchronous part of a call up to its first await)
\* -------------------------------------------------------------------------
\* faulty variant of CallResize: beyond the last level the closest attempt
\* is returned as a success
CallResizeClosest(f, s, n) ==
  /\ phase' = "Resolution"
  /\ cur' = f
  /\ initialScale' = s
  /\ attemptCount' = n
  /\ IF n > MaxResizeAttempts
       THEN /\ pc' = "done"
            /\ Settle(SuccessResult(UrlOf(f), f, f.w, f.h))
       ELSE /\ pc' = IF IsPngPath THEN "png_load" ELSE "rs_load"
            /\ UNCHANGED request

\* resizeUntilTargetSize / resizePngUntilTargetSize(f, targetSizeKB, s, n)
CallResize(f, s, n) ==
  /\ phase' = "Resolution"
  /\ cur' = f
  /\ initialScale' = s
  /\ attemptCount' = n
  /\ IF n > MaxResizeAttempts
       THEN /\ pc' = "done"
            /\ Settle(ErrorResult(f, "max attempts reached"))
       ELSE /\ pc' = IF IsPngPath THEN "png_load" ELSE "rs_load"
            /\ UNCHANGED request

\* recursiveCompression(file, targetSizeKB, format, q, a)
CallRecursiveCompression(q, a) ==
  /\ attempt' = a
  /\ IF a > MaxQualityAttempts
       THEN \* the quality is not passed on to resizeUntilTargetSize
            /\ quality' = 0
            /\ CallResize(file, DefaultInitialScale, 0)
       ELSE /\ quality' = q
            /\ pc' = "qs_load"
            /\ phase' = "Quality"
            /\ UNCHANGED <<cur, initialScale, attemptCount>>
            /\ UNCHANGED request

\* faulty variant of LoweredQuality: no floor under the lowered quality
LoweredQualityNoFloor(s) == (quality * 85) \div 100

\* quality of the next attempt after an over-budget result of size s
LoweredQuality(s) ==
  IF attempt = 0
    THEN LET q0 == Max(FirstStepQualityFloor,
                       (quality * targetSizeKB * BytesPerKB) \div s)
         IN  IF format = "webp" THEN Max(FirstStepQualityFloorWebp, q0) ELSE q0
    ELSE Max(IF format = "webp" THEN QualityFloorWebp ELSE QualityFloor,
             (quality * 85) \div 100)

\* faulty variant of RaisedQuality: the raised quality is not capped
RaisedQualityUncapped == (quality * 3) \div 2

\* quality of the next attempt after a result under 50% of the target:
\* Math.min(0.99, quality * 1.5)
RaisedQuality == Min(MaxQuality, (quality * 3) \div 2)

\* recursiveCompression after `await this.compressImage(..)` returned res;
\* live is the set of live URLs at that point
AfterCompressImage(res, live) ==
  IF FitsBudget(res.size)
    THEN IF TooSmall(res.size) /\ quality < OvercorrectionQualityLimit
           THEN /\ urls' = Revoke(live, res.url)
                /\ CallRecursiveCompression(RaisedQuality, attempt + 1)
           ELSE /\ urls' = live
                /\ pc' = "done"
                /\ Settle(res)
                /\ UNCHANGED <<phase, quality, attempt, cur, initialScale,
                               attemptCount>>
    ELSE /\ urls' = Revoke(live, res.url)
         /\ CallRecursiveCompression(LoweredQuality(res.size), attempt + 1)

\* -------------------------------------------------------------------------
\* Steps of the call chain
\* -------------------------------------------------------------------------
DecodeOutcomes == {"ok", "fail", "hang"}

\* compressToTargetSize up to its first await
Start ==
  /\ pc = "start"
  /\ IF FitsBudget(file.size)
       THEN /\ pc' = "df_load"
            /\ phase' = "DirectFit"
            /\ UNCHANGED <<quality, attempt, cur, initialScale, attemptCount,
                           timer60>>
       ELSE IF IsPngPath
         THEN /\ pc' = "png_load"
              /\ phase' = "Resolution"
              /\ cur' = file
              /\ initialScale' = DefaultInitialScale
              /\ attemptCount' = 0
              /\ timer60' = "armed"
              /\ UNCHANGED <<quality, attempt>>
         ELSE /\ pc' = "qs_load"
              /\ phase' = "Quality"
              /\ quality' = IF format = "webp" THEN InitialQualityWebp
                            ELSE InitialQualityOriginal
              /\ attempt' = 0
              /\ timer60' = "armed"
              /\ UNCHANGED <<cur, initialScale, attemptCount>>
  /\ UNCHANGED <<caller, upload, inputs, canvas, outcome, result, rejection, timers20, urls,
                 peakLive>>

\* direct fit: `await this.loadImage(file)` and the return
DirectFit ==
  /\ pc = "df_load"
  /\ \E d \in DecodeOutcomes :
       CASE d = "ok" ->
              /\ pc' = "done"
              /\ urls' = urls \cup {UrlOf(file)}
              /\ Created(urls \cup {UrlOf(file)})
              /\ Settle(SuccessResult(UrlOf(file), file, file.w, file.h))
         [] d = "fail" ->
              /\ pc' = "done"
              /\ Settle(ErrorResult(file, "decode failed"))
              /\ UNCHANGED <<urls, peakLive>>
         [] d = "hang" ->
              /\ pc' = "hung"
              /\ UNCHANGED <<request, urls, peakLive>>
  /\ UNCHANGED <<caller, upload, inputs, phase, quality, attempt, cur, initialScale,
                 attemptCount, canvas>>

\* compressImage: `await this.loadImage(file)`, getContext, drawImage, toBlob
CompressImageDraw ==
  /\ pc = "qs_load"
  /\ \E d \in DecodeOutcomes, ctx \in BOOLEAN :
       CASE d = "hang" ->
              /\ pc' = "hung"
              /\ UNCHANGED <<phase, quality, attempt, cur, initialScale,
                             attemptCount, canvas, request, urls>>
         [] d = "fail" ->
              /\ AfterCompressImage(ErrorResult(file, "decode failed"), urls)
              /\ UNCHANGED canvas
         [] d = "ok" /\ ~ctx ->
              /\ AfterCompressImage(
                   ErrorResult(file, "Failed to get canvas context"), urls)
              /\ UNCHANGED canvas
         [] d = "ok" /\ ctx ->
              /\ pc' = "qs_blob"
              /\ canvas' = <<file.w, file.h>>
              /\ UNCHANGED <<phase, quality, attempt, cur, initialScale,
                             attemptCount, request, urls>>
  /\ UNCHANGED <<caller, upload, inputs, peakLive>>

\* compressImage: the toBlob callback, then recursiveCompression's decision
CompressImageBlob ==
  /\ pc = "qs_blob"
  /\ \/ \* blob is null: the callback does nothing, the promise stays pending
        /\ pc' = "hung"
        /\ UNCHANGED <<phase, quality, attempt, cur, initialScale,
                       attemptCount, request, urls, peakLive>>
     \/ \E s \in Sizes :
          LET newFile == NewFile(QualityBlobId(attempt), s, MimeTypeOf(file),
                                 NewFileName(file), canvas[1], canvas[2])
              u == UrlOf(newFile)
          IN  /\ Created(urls \cup {u})
              /\ AfterCompressImage(
                   SuccessResult(u, newFile, file.w, file.h), urls \cup {u})
  /\ UNCHANGED <<caller, upload, inputs, canvas>>

\* scale of one resize level: Math.max(0.1, Math.min(initialScale, sqrt(..)))
ScaleFor(s0, size) == Max(MinScale, Min(s0, SqrtRatio(targetSizeKB, size)))

\* faulty variant of ScaledDim: no floor of one pixel
ScaledDimNoFloor(dim, scale) == (dim * scale) \div ScaleDen

\* faulty variant of ScaledDim: rounds up instead of down
ScaledDimCeil(dim, scale) == Max(1, (dim * scale + ScaleDen - 1) \div ScaleDen)

\* Math.max(1, Math.floor(dim * scale))
ScaledDim(dim, scale) == Max(1, (dim * scale) \div ScaleDen)

\* Math.min(0.9, Math.sqrt(targetSizeKB / newSizeKB))
NextScale(size) == Min(MaxNextScale, SqrtRatio(targetSizeKB, size))

\* initialScale * Math.min(1.5, Math.sqrt(targetSizeKB / newSizeKB))
UpScaled(s0, size) ==
  (s0 * Min(MaxUpScale, SqrtRatio(targetSizeKB, size))) \div ScaleDen

\* one level of resize*UntilTargetSize from `await this.loadImage(file)` to
\* the toBlob call wrapped in timeoutPromise(.., 20000)
ResizeLevelDraw ==
  \E d \in DecodeOutcomes, ctx \in BOOLEAN :
    CASE d = "hang" ->
           /\ pc' = "hung"
           /\ UNCHANGED <<canvas, request, urls, peakLive>>
      [] d = "fail" ->
           /\ pc' = "done"
           /\ Settle(ErrorResult(cur, "decode failed"))
           /\ UNCHANGED <<canvas, urls, peakLive>>
      [] d = "ok" /\ FitsBudget(cur.size) ->
           /\ pc' = "done"
           /\ urls' = urls \cup {UrlOf(cur)}
           /\ Created(urls \cup {UrlOf(cur)})
           /\ Settle(SuccessResult(UrlOf(cur), cur, cur.w, cur.h))
           /\ UNCHANGED canvas
      [] d = "ok" /\ ~FitsBudget(cur.size) /\ ~ctx ->
           /\ pc' = "done"
           /\ Settle(ErrorResult(cur, "Failed to get canvas context"))
           /\ UNCHANGED <<canvas, urls, peakLive>>
      [] d = "ok" /\ ~FitsBudget(cur.size) /\ ctx ->
           LET scale == ScaleFor(initialScale, cur.size)
           IN  /\ pc' = IF pc = "png_load" THEN "png_blob" ELSE "rs_blob"
               /\ canvas' = <<ScaledDim(cur.w, scale), ScaledDim(cur.h, scale)>>
               /\ timers20' = timers20 \cup {attemptCount}
               /\ UNCHANGED <<outcome, result, rejection, timer60, urls,
                              peakLive>>

\* resizeUntilTargetSize up to toBlob
ResizeDraw ==
  /\ pc = "rs_load"
  /\ ResizeLevelDraw
  /\ UNCHANGED <<caller, upload, inputs, phase, quality, attempt, cur, initialScale,
                 attemptCount>>

\* resizePngUntilTargetSize up to toBlob
ResizePngDraw ==
  /\ pc = "png_load"
  /\ ResizeLevelDraw
  /\ UNCHANGED <<caller, upload, inputs, phase, quality, attempt, cur, initialScale,
                 attemptCount>>

\* resizeUntilTargetSize: the toBlob callback
ResizeBlob ==
  /\ pc = "rs_blob"
  /\ \/ \* blob is null: throw, caught by the callback's catch, reject(error)
        /\ pc' = "done"
        /\ Fail("blob creation failed")
        /\ UNCHANGED <<phase, cur, initialScale, attemptCount, urls,
                       peakLive>>
     \/ \E s \in Sizes :
          LET newFile == NewFile(ResizeBlobId(attemptCount), s,
                                 MimeTypeOf(cur), NewFileName(cur),
                                 canvas[1], canvas[2])
              u == UrlOf(newFile)
          IN  /\ Created(urls \cup {u})
              /\ IF ~FitsBudget(s)
                   THEN /\ urls' = Revoke(urls \cup {u}, u)
                        /\ CallResize(newFile, NextScale(s), attemptCount + 1)
                   ELSE IF /\ TooSmall(s)
                           /\ canvas[1] > UpscaleMinDim
                           /\ canvas[2] > UpscaleMinDim
                     THEN /\ urls' = Revoke(urls \cup {u}, u)
                          /\ CallResize(cur, UpScaled(initialScale, s),
                                        attemptCount + 1)
                     ELSE /\ urls' = urls \cup {u}
                          /\ pc' = "done"
                          /\ Settle(SuccessResult(u, newFile, canvas[1],
                                                  canvas[2]))
                          /\ UNCHANGED <<phase, cur, initialScale,
                                         attemptCount>>
  /\ UNCHANGED <<caller, upload, inputs, quality, attempt, canvas>>

\* resizePngUntilTargetSize: the toBlob callback
ResizePngBlob ==
  /\ pc = "png_blob"
  /\ \/ \* blob is null: the callback does nothing, the promise stays pending
        /\ pc' = "hung"
        /\ UNCHANGED <<phase, cur, initialScale, attemptCount, request, urls,
                       peakLive>>
     \/ \E s \in Sizes :
          LET newFile == NewFile(ResizeBlobId(attemptCount), s, "image/png",
                                 cur.name, canvas[1], canvas[2])
              u == UrlOf(newFile)
          IN  /\ Created(urls \cup {u})
              /\ IF ~FitsBudget(s)
                   THEN /\ urls' = Revoke(urls \cup {u}, u)
                        /\ CallResize(newFile, NextScale(s), attemptCount + 1)
                   ELSE /\ urls' = urls \cup {u}
                        /\ pc' = "done"
                        /\ Settle(SuccessResult(u, newFile, canvas[1],
                                                canvas[2]))
                        /\ UNCHANGED <<phase, cur, initialScale, attemptCount>>
  /\ UNCHANGED <<caller, upload, inputs, quality, attempt, canvas>>

\* -------------------------------------------------------------------------
\* Timers of timeoutPromise
\* -------------------------------------------------------------------------
\* the 60000 ms timer of compressToTargetSize fires: reject(new Error(..))
Timeout60 ==
  /\ timer60 = "armed"
  /\ timer60' = "fired"
  /\ outcome' = IF outcome = "pending" THEN "rejected" ELSE outcome
  /\ rejection' = IF outcome = "pending" THEN "timeout 60s" ELSE rejection
  /\ UNCHANGED <<caller, upload, inputs, chain, canvas, result, timers20, urls, peakLive>>

\* a 20000 ms timer of a resize level fires.  The timers have the same delay
\* and are armed level after level, so the outermost armed one fires first;
\* a nested level only rejects a promise whose outer level is rejected
\* already.  No timer stops the call chain.
Timeout20 ==
  /\ timers20 # {}
  /\ LET level == CHOOSE l \in timers20 : \A m \in timers20 : l <= m
     IN  /\ timers20' = timers20 \ {level}
         /\ IF level = 0 /\ outcome = "pending"
              THEN /\ outcome' = "rejected"
                   /\ rejection' = "timeout 20s"
                   /\ timer60' = IF timer60 = "armed" THEN "off" ELSE timer60
              ELSE UNCHANGED <<outcome, rejection, timer60>>
  /\ UNCHANGED <<caller, upload, inputs, chain, canvas, result, urls, peakLive>>

Next ==
  \/ Start
  \/ DirectFit
  \/ CompressImageDraw
  \/ CompressImageBlob
  \/ ResizeDraw
  \/ ResizePngDraw
  \/ ResizeBlob
  \/ ResizePngBlob
  \/ Timeout60
  \/ Timeout20

Spec == Init /\ [][Next]_vars

\* Every step of the event loop that is enabled is eventually run: pending
\* callbacks are delivered and armed timers fire.
FairSpec == Spec /\ WF_vars(Next)

TypeOK ==
  /\ pc \in {"start", "df_load", "qs_load", "qs_blob", "rs_load", "rs_blob",
             "png_load", "png_blob", "done", "hung"}
  /\ phase \in {"Start", "DirectFit", "Quality", "Resolution"}
  /\ outcome \in {"pending", "resolved", "rejected"}
  /\ timer60 \in {"off", "armed", "fired"}
  /\ timers20 \subseteq 0..MaxResizeAttempts
  /\ urls \subseteq 1..(ResizeBlobId(MaxResizeAttempts) + 1)
  /\ attempt \in 0..(MaxQualityAttempts + 1)
  /\ attemptCount \in 0..(MaxResizeAttempts + 1)

\* -------------------------------------------------------------------------
\* The processing component: ImageProcessor (one file), BatchProcessor
\* -------------------------------------------------------------------------
\* the two compress buttons: handleCompressAll(200), handleCompressAll(500)
ButtonTargets == {200, 500}

\* how the engine settles a call: a success result, a status='error' result
\* or a rejected promise
CallOutcomes == {"success", "error", "rejected"}

\* the byte sizes a result may have under a call: at most the budget of the
\* call for a success (one size per button target), any of them for a failure
\* result, which carries the size of the source
ResultSizes(c, out) ==
  {t * BytesPerKB :
     t \in {k \in ButtonTargets : out = "success" => k <= c.target}}

\* the ProcessedImage the engine resolves call c with
ResultOf(c, out, size) == [status |-> out, src |-> c.file, size |-> size]

\* the message the catch block stores: result.error of a failure result or
\* error.message of a rejection; every message is the same non-empty text
MessageOf(out) == IF out = "success" THEN "" ELSE "failed"

\* useEffect on imageFiles: file, processed: null, progress: 0
FreshImage(f) ==
  [file |-> f, processed |-> NoProcessed, progress |-> 0, error |-> "",
   targetSizeKB |-> 0]

Indices == 1..Len(imageFiles)
IsSingle == Len(imageFiles) = 1
IsBatch == Len(imageFiles) > 1

\* the component the page mounts for n files, before any click
CallerInit ==
  /\ EngineIdle
  /\ UploadIdle
  /\ \E n \in 1..MaxImages :
       /\ imageFiles = [i \in 1..n |-> i]
       /\ processingImages =
            IF n = 1 THEN <<>> ELSE [i \in 1..n |-> FreshImage(i)]
       /\ inFlight = [i \in 1..n |-> NoCall]
       /\ retryInFlight = [i \in 1..n |-> NoCall]
       /\ failedRequest = [i \in 1..n |-> NoCall]
  /\ selectedFormat = "original"
  /\ isProcessing = FALSE
  /\ processedImage = NoProcessed
  /\ allCompleted = FALSE
  /\ completedCount = 0

\* ImageProcessor: the format buttons (never disabled)
SingleSelectFormat ==
  /\ IsSingle
  /\ \E f \in Formats : selectedFormat' = f
  /\ UNCHANGED <<imageFiles, isProcessing, processedImage, processingImages,
                 allCompleted, completedCount, inFlight, retryInFlight,
                 failedRequest>>
  /\ UNCHANGED <<engine, upload>>

\* ImageProcessor.handleCompressToSize up to its await
HandleCompressToSize ==
  /\ IsSingle
  /\ ~isProcessing
  /\ \E t \in ButtonTargets :
       inFlight' = [inFlight EXCEPT ![1] = Call(imageFiles[1], t,
                                                selectedFormat)]
  /\ isProcessing' = TRUE
  /\ UNCHANGED <<imageFiles, selectedFormat, processedImage,
                 processingImages, allCompleted, completedCount,
                 retryInFlight, failedRequest>>
  /\ UNCHANGED <<engine, upload>>

\* ImageProcessor.handleCompressToSize after its await: the result is stored
\* whatever its status, a rejection is only logged
CompressToSizeSettles ==
  /\ IsSingle
  /\ inFlight[1] # NoCall
  /\ \E out \in CallOutcomes :
       \E size \in ResultSizes(inFlight[1], out) :
         processedImage' = IF out = "rejected" THEN processedImage
                           ELSE ResultOf(inFlight[1], out, size)
  /\ inFlight' = [inFlight EXCEPT ![1] = NoCall]
  /\ isProcessing' = FALSE
  /\ UNCHANGED <<imageFiles, selectedFormat, processingImages, allCompleted,
                 completedCount, retryInFlight, failedRequest>>
  /\ UNCHANGED <<engine, upload>>

\* BatchProcessor: the format buttons, disabled while isProcessing
BatchSelectFormat ==
  /\ IsBatch
  /\ ~isProcessing
  /\ \E f \in Formats : selectedFormat' = f
  /\ UNCHANGED <<imageFiles, isProcessing, processedImage, processingImages,
                 allCompleted, completedCount, inFlight, retryInFlight,
                 failedRequest>>
  /\ UNCHANGED <<engine, upload>>

\* BatchProcessor.handleCompressAll up to the await of Promise.all
HandleCompressAll ==
  /\ IsBatch
  /\ ~isProcessing
  /\ \E t \in ButtonTargets :
       /\ processingImages' =
            [i \in Indices |->
               [processingImages[i] EXCEPT !.targetSizeKB = t, !.error = "",
                                           !.progress = 10]]
       /\ inFlight' =
            [i \in Indices |->
               Call(processingImages[i].file, t, selectedFormat)]
  /\ isProcessing' = TRUE
  /\ allCompleted' = FALSE
  /\ completedCount' = 0
  /\ failedRequest' = [i \in Indices |-> NoCall]
  /\ UNCHANGED <<imageFiles, selectedFormat, processedImage, retryInFlight>>
  /\ UNCHANGED <<engine, upload>>

\* faulty variant of SetProcessed: the result is stored at the last index
SetProcessedAtLast(images, index, res) ==
  [images EXCEPT ![Len(images)] =
     [@ EXCEPT !.processed = res, !.progress = 100, !.error = ""]]

\* newImages[index] = {...newImages[index], processed, progress: 100, ..}
SetProcessed(images, index, res) ==
  [images EXCEPT ![index] =
     [@ EXCEPT !.processed = res, !.progress = 100, !.error = ""]]

\* newImages[index] = {...newImages[index], error: message, progress: 0}
SetError(images, index, msg) ==
  [images EXCEPT ![index] = [@ EXCEPT !.error = msg, !.progress = 0]]

\* handleCompressAll: the callback of image i after its await, and the
\* finally block once the last callback of the batch has run
CompressAllSettles ==
  \E i \in Indices, out \in CallOutcomes :
    /\ IsBatch
    /\ inFlight[i] # NoCall
    /\ IF out = "success"
         THEN /\ \E size \in ResultSizes(inFlight[i], out) :
                   processingImages' =
                     SetProcessed(processingImages, i,
                                  ResultOf(inFlight[i], out, size))
              /\ completedCount' = completedCount + 1
              /\ allCompleted' =
                   IF completedCount + 1 = Len(processingImages) THEN TRUE
                   ELSE allCompleted
              /\ failedRequest' = [failedRequest EXCEPT ![i] = NoCall]
         ELSE /\ processingImages' =
                   SetError(processingImages, i, MessageOf(out))
              /\ failedRequest' = [failedRequest EXCEPT ![i] = inFlight[i]]
              /\ UNCHANGED <<completedCount, allCompleted>>
    /\ inFlight' = [inFlight EXCEPT ![i] = NoCall]
    /\ isProcessing' = (\E j \in Indices \ {i} : inFlight[j] # NoCall)
    /\ UNCHANGED <<imageFiles, selectedFormat, processedImage, retryInFlight>>
    /\ UNCHANGED <<engine, upload>>

\* BatchProcessor.handleRetryImage(i) up to its await; the button is shown
\* while the image has an error and is not disabled by isProcessing.  The
\* model keeps one pending retry per image and MaxRetriesInFlight in all.
HandleRetryImage ==
  \E i \in Indices :
    /\ IsBatch
    /\ processingImages[i].error # ""
    /\ processingImages[i].targetSizeKB # 0
    /\ retryInFlight[i] = NoCall
    /\ Cardinality({j \in Indices : retryInFlight[j] # NoCall})
         < MaxRetriesInFlight
    /\ processingImages' =
         [processingImages EXCEPT ![i] = [@ EXCEPT !.progress = 10,
                                                  !.error = ""]]
    /\ retryInFlight' =
         [retryInFlight EXCEPT ![i] =
            Call(processingImages[i].file, processingImages[i].targetSizeKB,
                 selectedFormat)]
    /\ failedRequest' = [failedRequest EXCEPT ![i] = NoCall]
    /\ UNCHANGED <<imageFiles, selectedFormat, isProcessing, processedImage,
                   allCompleted, completedCount, inFlight>>
    /\ UNCHANGED <<engine, upload>>

\* handleRetryImage after its await
RetrySettles ==
  \E i \in Indices, out \in CallOutcomes :
    /\ IsBatch
    /\ retryInFlight[i] # NoCall
    /\ IF out = "success"
         THEN \E size \in ResultSizes(retryInFlight[i], out) :
              LET newImages ==
                    SetProcessed(processingImages, i,
                                 ResultOf(retryInFlight[i], out, size))
              IN  /\ processingImages' = newImages
                  /\ allCompleted' =
                       IF \A j \in Indices : newImages[j].progress = 100
                         THEN TRUE ELSE allCompleted
                  /\ failedRequest' = [failedRequest EXCEPT ![i] = NoCall]
         ELSE /\ processingImages' =
                   SetError(processingImages, i, MessageOf(out))
              /\ failedRequest' =
                   [failedRequest EXCEPT ![i] = retryInFlight[i]]
              /\ UNCHANGED allCompleted
    /\ retryInFlight' = [retryInFlight EXCEPT ![i] = NoCall]
    /\ UNCHANGED <<imageFiles, selectedFormat, isProcessing, processedImage,
                   completedCount, inFlight>>
    /\ UNCHANGED <<engine, upload>>

CallerNext ==
  \/ SingleSelectFormat
  \/ HandleCompressToSize
  \/ CompressToSizeSettles
  \/ BatchSelectFormat
  \/ HandleCompressAll
  \/ CompressAllSettles
  \/ HandleRetryImage
  \/ RetrySettles

CallerSpec == CallerInit /\ [][CallerNext]_vars

\* -------------------------------------------------------------------------
\* From the page and the uploader to the engine: Home, ImageUploader
\* -------------------------------------------------------------------------
Total(v) == v.ok + v.badtype + v.toobig
Plus(a, b) ==
  [ok |-> a.ok + b.ok, badtype |-> a.badtype + b.badtype,
   toobig |-> a.toobig + b.toobig]

\* what the user drops or picks at once: a few files of each kind, or one
\* more valid file than a batch may hold
Picks ==
  {[ok |-> a, badtype |-> b, toobig |-> c] :
     a \in (0..MaxPicked) \cup {MaxBatchFiles + 1},
     b \in 0..1, c \in 0..1} \ {NoFiles}

\* files.filter(isValidType && isValidSize), then validFiles.splice(10)
ValidFiles(g) ==
  [ok |-> Min(g.ok, MaxBatchFiles), badtype |-> 0, toobig |-> 0]

\* what useDropzone's accept, maxSize and maxFiles let through to onDrop
DropzoneAccepts(g) ==
  g.badtype = 0 /\ g.toobig = 0 /\ g.ok >= 1 /\ g.ok <= MaxBatchFiles

\* Home renders ImageUploader while processingImages is empty
UploaderMounted == Total(homeProcessingImages) = 0

UploadInit ==
  /\ EngineIdle
  /\ CallerIdle
  /\ UploadIdle

\* Home.handleDrop / handleFileInputChange -> handleImageUpload(files).
\* A processing component is unmounted; a mounted uploader takes the new
\* initialFiles in its effect only when their number differs from its own
\* list's, a newly mounted one starts from them.
HandleImageUpload ==
  \E g \in Picks :
    /\ g.ok > 0
    /\ homeSelectedFiles' = ValidFiles(g)
    /\ homeProcessingImages' = NoFiles
    /\ selectedFiles' =
         IF ~UploaderMounted \/ Total(ValidFiles(g)) # Total(selectedFiles)
           THEN ValidFiles(g) ELSE selectedFiles
    /\ handed' = NoFiles
    /\ UNCHANGED <<engine, caller>>

\* ImageUploader.onDrop(acceptedFiles), with onAddMoreFiles(newFiles)
OnDrop ==
  \E g \in Picks :
    /\ UploaderMounted
    /\ DropzoneAccepts(g)
    /\ Total(Plus(selectedFiles, g)) <= MaxListed
    /\ selectedFiles' = Plus(selectedFiles, g)
    /\ homeSelectedFiles' = Plus(selectedFiles, g)
    /\ UNCHANGED <<homeProcessingImages, handed>>
    /\ UNCHANGED <<engine, caller>>

\* ImageUploader.handleFileSelect: the files of the picker are appended as
\* they are; the onAddMoreFiles callback of setTimeout(.., 0) is part of the
\* step
HandleFileSelect ==
  \E g \in Picks :
    /\ UploaderMounted
    /\ Total(Plus(selectedFiles, g)) <= MaxListed
    /\ selectedFiles' = Plus(selectedFiles, g)
    /\ homeSelectedFiles' = Plus(selectedFiles, g)
    /\ UNCHANGED <<homeProcessingImages, handed>>
    /\ UNCHANGED <<engine, caller>>

\* ImageUploader.handleRemoveFile(index), for a file of any listed kind
HandleRemoveFile ==
  /\ UploaderMounted
  /\ \E newFiles \in {[selectedFiles EXCEPT !.ok = @ - 1],
                      [selectedFiles EXCEPT !.badtype = @ - 1],
                      [selectedFiles EXCEPT !.toobig = @ - 1]} :
       /\ newFiles.ok >= 0 /\ newFiles.badtype >= 0 /\ newFiles.toobig >= 0
       /\ selectedFiles' = newFiles
       /\ homeSelectedFiles' = newFiles
  /\ UNCHANGED <<homeProcessingImages, handed>>
  /\ UNCHANGED <<engine, caller>>

\* ImageUploader.clearFiles
ClearFiles ==
  /\ UploaderMounted
  /\ Total(selectedFiles) > 0
  /\ selectedFiles' = NoFiles
  /\ homeSelectedFiles' = NoFiles
  /\ UNCHANGED <<homeProcessingImages, handed>>
  /\ UNCHANGED <<engine, caller>>

\* ImageUploader.handleStartProcessing -> Home.handleStartProcessing(files):
\* the uploader is replaced by a processing component
HandleStartProcessing ==
  /\ UploaderMounted
  /\ Total(selectedFiles) > 0
  /\ homeProcessingImages' = selectedFiles
  /\ selectedFiles' = NoFiles
  /\ UNCHANGED <<homeSelectedFiles, handed>>
  /\ UNCHANGED <<engine, caller>>

\* Home.handleReset, the onReset of the processing components
HandleReset ==
  /\ ~UploaderMounted
  /\ homeProcessingImages' = NoFiles
  /\ homeSelectedFiles' = NoFiles
  /\ selectedFiles' = NoFiles
  /\ handed' = NoFiles
  /\ UNCHANGED <<engine, caller>>

\* a compress button of the mounted processing component: every file of its
\* props is passed to compressToTargetSize
CompressClicked ==
  /\ ~UploaderMounted
  /\ handed' = homeProcessingImages
  /\ UNCHANGED <<homeSelectedFiles, homeProcessingImages, selectedFiles>>
  /\ UNCHANGED <<engine, caller>>

UploadNext ==
  \/ HandleImageUpload
  \/ OnDrop
  \/ HandleFileSelect
  \/ HandleRemoveFile
  \/ ClearFiles
  \/ HandleStartProcessing
  \/ HandleReset
  \/ CompressClicked

UploadSpec == UploadInit /\ [][UploadNext]_vars

\* -------------------------------------------------------------------------
\* Properties
\* -------------------------------------------------------------------------
Budget == targetSizeKB * 1024
Returned == outcome = "resolved"
PhaseRank(p) ==
  CASE p = "Start" -> 0
    [] p = "DirectFit" -> 1
    [] p = "Quality" -> 2
    [] p = "Resolution" -> 3

\* C1: the promise returned by compressToTargetSize never rejects; every
\* failure path, deadline expiry included, resolves with an error result.
CompressNeverRejects == outcome # "rejected"

\* C2: every call of compressToTargetSize eventually settles, whatever the
\* decoder and the encoder do, provided armed timers fire.
EventuallySettles == <>(outcome # "pending")

\* C3: direct fit.  For a source within the budget no canvas is ever drawn or
\* encoded and the promise is never rejected; the result carries the source
\* file itself and its size, with status 'success' (and a live URL of the
\* source) unless the decode of the source failed.
DirectFitReturnsSource ==
  file.size <= Budget =>
    /\ canvas = <<>>
    /\ outcome # "rejected"
    /\ Returned =>
         /\ result.file = file
         /\ result.size = file.size
         /\ \/ /\ result.status = "success"
               /\ result.width = file.w
               /\ result.height = file.h
            \/ /\ result.status = "error"
               /\ result.error = "decode failed"

DirectFitWitness ==
  /\ file.size = Budget
  /\ format = "webp"
  /\ Returned
  /\ result.status = "success"
  /\ result.file = file

\* C4: budget monotonicity.  Every success result returned by
\* compressToTargetSize has size <= targetSizeKB * 1024.
SuccessWithinBudget ==
  (Returned /\ result.status = "success") => result.size <= Budget

SuccessWithinBudgetWitness ==
  /\ Returned
  /\ result.status = "success"
  /\ phase = "Resolution"
  /\ attemptCount >= 2
  /\ result.file.id # 0
  /\ result.size <= Budget

\* C5: a returned ProcessedImage populates exactly one payload: success has
\* a URL and no error message, error has no URL, zero dimensions and an error
\* message; size is the byte length of the result's file.
ResultWellFormed ==
  Returned =>
    /\ result.status \in {"success", "error"}
    /\ result.status = "success" => (result.url # 0 /\ result.error = "")
    /\ result.status = "error" =>
         /\ result.url = 0
         /\ result.width = 0
         /\ result.height = 0
         /\ result.error # ""
    /\ result.size = result.file.size

ResultWellFormedWitness ==
  /\ Returned
  /\ result.status = "error"
  /\ result.file.id # 0
  /\ result.file.w > 0

\* C6: every failure result carries the original source file and its size,
\* also when the failure is raised at a nested resize level.
FailureCarriesSource ==
  (Returned /\ result.status = "error") =>
    (result.file = file /\ result.size = file.size)

\* C7: resource hygiene.  At every instant at most one object URL of the
\* request is live, and the URL of a rejected candidate is revoked before the
\* next candidate is decoded, drawn or encoded.
AtMostOneLiveUrl ==
  /\ peakLive <= 1
  /\ Cardinality(urls) <= 1
  /\ pc \in {"qs_load", "qs_blob", "rs_load", "rs_blob", "png_load",
             "png_blob"} => urls = {}

AtMostOneLiveUrlWitness ==
  /\ pc = "done"
  /\ attempt > MaxQualityAttempts
  /\ attemptCount >= 2
  /\ Cardinality(urls) = 1
  /\ peakLive = 1

\* C8 as stated: when the bounded recursion is exhausted the engine returns
\* its closest attempt (a success) whenever a valid candidate was produced.
ExhaustionReturnsClosest ==
  (Returned /\ attemptCount > MaxResizeAttempts) => result.status = "success"

\* C8 amended: when the resolution search runs past its last level the
\* request ends with a failure result (maximum attempts reached), although
\* candidates were produced; no over-budget attempt is returned.
ExhaustionReturnsFailure ==
  (Returned /\ attemptCount > MaxResizeAttempts) =>
    /\ result.status = "error"
    /\ result.error = "max attempts reached"
    /\ result.url = 0

ExhaustionWitness ==
  /\ Returned
  /\ attemptCount > MaxResizeAttempts
  /\ result.status = "error"
  /\ result.file.id # 0

\* C9: dimension floor.  Every canvas the engine draws and encodes has
\* width >= 1 and height >= 1.
DimensionFloor == canvas # <<>> => (canvas[1] >= 1 /\ canvas[2] >= 1)

DimensionFloorWitness ==
  /\ phase = "Resolution"
  /\ pc \in {"rs_blob", "png_blob"}
  /\ cur.h = 1
  /\ canvas[2] = 1

\* C10: per-request phase order.  Phases are entered forwards only, no
\* compressImage step runs once the resolution search has started, and once
\* the request has its terminal outcome no further phase is entered.
PhaseOrder ==
  [][/\ PhaseRank(phase') >= PhaseRank(phase)
     /\ phase = "Resolution" => pc' \notin {"qs_load", "qs_blob"}
     /\ outcome # "pending" => phase' = phase]_vars

\* C11: batch isolation.  For every order in which the requests of a batch
\* (and of retries) complete, a step changes the processed result of index j
\* only when a call issued for index j settles in that step, and the result
\* then stored at j is the result of compressing the file of entry j.
BatchIsolation ==
  [][\A j \in DOMAIN processingImages :
       (processingImages'[j].processed # processingImages[j].processed) =>
         /\ \/ inFlight[j] # NoCall /\ inFlight'[j] = NoCall
            \/ retryInFlight[j] # NoCall /\ retryInFlight'[j] = NoCall
         /\ processingImages'[j].processed.status = "success"
         /\ processingImages'[j].processed.src = processingImages'[j].file
         /\ processingImages'[j].file = imageFiles[j]]_vars

BatchIsolationWitness ==
  /\ IsBatch
  /\ inFlight[1] # NoCall
  /\ processingImages[1].processed = NoProcessed
  /\ processingImages[Len(imageFiles)].processed.status = "success"
  /\ processingImages[Len(imageFiles)].processed.src
       = imageFiles[Len(imageFiles)]

\* C12: batch completion is detected by count, not order.  Once every image
\* of the batch is at progress 100 with a processed result and no
\* compression is in flight, allCompleted is true.
CompletionDetected ==
  (/\ IsBatch
   /\ \A i \in Indices :
        /\ processingImages[i].progress = 100
        /\ processingImages[i].processed # NoProcessed
        /\ inFlight[i] = NoCall
        /\ retryInFlight[i] = NoCall) => allCompleted

\* C13: a retry replays the identical request.  The call handleRetryImage
\* issues for index i has the file, the target size and the format of the
\* request whose failure put index i in its error state.
RetryReplaysRequest ==
  [][\A i \in DOMAIN retryInFlight :
       (retryInFlight[i] = NoCall /\ retryInFlight'[i] # NoCall) =>
         retryInFlight'[i] = failedRequest[i]]_vars

\* C14: every file passed to compressToTargetSize has an accepted MIME type
\* and at most 10MB, and the files passed by one click are at most 10.
UploadValidated ==
  /\ handed.badtype = 0
  /\ handed.toobig = 0
  /\ Total(handed) <= MaxBatchFiles

\* C15: in both callers an outcome with status 'error' is never stored as
\* the processed result (which is what the download buttons offer).
ErrorNeverStored ==
  /\ processedImage.status # "error"
  /\ \A i \in DOMAIN processingImages :
       processingImages[i].processed.status # "error"

\* C16: a result accepted by the quality search (no resolution search was
\* started) has the pixel width and height of the source, and under
\* format 'original' the MIME type and the file name of the source.
QualityResultKeepsSource ==
  (Returned /\ phase = "Quality" /\ result.status = "success") =>
    /\ result.width = file.w
    /\ result.height = file.h
    /\ result.file.w = file.w
    /\ result.file.h = file.h
    /\ format = "original" =>
         /\ result.file.type = file.type
         /\ result.file.name = file.name

QualityResultWitness ==
  /\ Returned
  /\ phase = "Quality"
  /\ result.status = "success"
  /\ format = "original"
  /\ attempt >= 2
  /\ result.file.id = QualityBlobId(attempt)
  /\ result.file.type = "image/jpeg"

\* C17 as stated: for an over-budget PNG source with format 'original' every
\* success result is within the budget and has both width and height
\* strictly smaller than the source's, for every source dimension >= 1.
PngSuccessStrictlySmaller ==
  (/\ file.type = "image/png"
   /\ format = "original"
   /\ file.size > Budget
   /\ Returned
   /\ result.status = "success") =>
    /\ result.size <= Budget
    /\ result.width < file.w
    /\ result.height < file.h

\* C17 amended: for an over-budget PNG source with format 'original' every
\* success result is within the budget, no dimension exceeds the source's,
\* and every source dimension of 2 pixels or more is strictly reduced; a
\* dimension of 1 pixel stays 1.
PngSuccessSmaller ==
  (/\ file.type = "image/png"
   /\ format = "original"
   /\ file.size > Budget
   /\ Returned
   /\ result.status = "success") =>
    /\ result.size <= Budget
    /\ result.width <= file.w
    /\ result.height <= file.h
    /\ file.w >= 2 => result.width < file.w
    /\ file.h >= 2 => result.height < file.h
    /\ file.w = 1 => result.width = 1
    /\ file.h = 1 => result.height = 1

PngSuccessSmallerWitness ==
  /\ file.type = "image/png"
  /\ format = "original"
  /\ file.size > Budget
  /\ Returned
  /\ result.status = "success"
  /\ attemptCount >= 1
  /\ file.h = 1
  /\ result.height = 1
  /\ result.width < file.w

\* C18: the quality search performs at most 10 encode attempts within one
\* request: the attempt being encoded (attempt + 1, counted from 1) never
\* exceeds 10.
QualityAttemptsBounded ==
  pc = "qs_blob" => attempt + 1 <= MaxQualityAttempts

\* C19: the resolution search draws and encodes at most 5 candidates within
\* one request: the level being encoded (attemptCount + 1, counted from 1)
\* never exceeds 5.
ResizeAttemptsBounded ==
  pc \in {"rs_blob", "png_blob"} => attemptCount + 1 <= MaxResizeAttempts

\* C20: upscale correction.  When resizeUntilTargetSize discards a candidate
\* under 50% of the target and tries the same file again, the scale of the
\* next attempt is strictly larger than the scale of the discarded one.
UpscaleRaisesScale ==
  [][(pc = "rs_blob" /\ pc' = "rs_load" /\ cur' = cur) =>
       Max(MinScale, Min(initialScale', SqrtRatio(targetSizeKB, cur'.size)))
         > Max(MinScale, Min(initialScale, SqrtRatio(targetSizeKB, cur.size)))
    ]_vars

\* C21: scale clamp.  No canvas drawn during a request is larger than the
\* source image in either dimension, and none is below 10% of the source's
\* width or height (one pixel of rounding allowed per resize level).
ScaleClamp ==
  canvas # <<>> =>
    /\ canvas[1] <= file.w
    /\ canvas[2] <= file.h
    /\ ScaleDen * (canvas[1] + attemptCount + 1) >= MinScale * file.w
    /\ ScaleDen * (canvas[2] + attemptCount + 1) >= MinScale * file.h

TimedOutLeavesNothing ==
  (/\ outcome = "rejected"
   /\ rejection \in {"timeout 60s", "timeout 20s"}
   /\ pc \in {"done", "hung"}) => urls = {}

\* C24: an empty encode output (toBlob delivers null) at an attempt of the
\* quality search, the PNG resolution search or the generic resolution search
\* ends a pending request in that step with a failure result, not with a
\* hanging operation or a rejection.
EmptyEncodeFails ==
  [][(/\ pc \in {"qs_blob", "png_blob", "rs_blob"}
      /\ outcome = "pending"
      /\ \/ pc' = "hung"
         \/ pc' = "done" /\ urls' = urls) =>
       (outcome' = "resolved" /\ result'.status = "error")]_vars

\* C25: a failed attempt of the quality search (compressImage returns an
\* error result: the chain leaves the decode step for a further attempt
\* without an encode) ends the request at once with that failure.
FailedAttemptEndsRequest ==
  [][(pc = "qs_load" /\ attempt' = attempt + 1) =>
       (pc' = "done" /\ outcome' = "resolved" /\ result'.status = "error")
    ]_vars

\* C26: quality bounds.  The quality of every attempt of the quality search
\* is at most 0.99 and at least 0.3 for format 'original', 0.6 for 'webp'.
QualityBounds ==
  pc \in {"qs_load", "qs_blob"} =>
    /\ quality <= 990
    /\ format = "original" => quality >= 300
    /\ format = "webp" => quality >= 600

QualityBoundsWitness ==
  /\ pc = "qs_blob"
  /\ attempt >= 2
  /\ \/ format = "original" /\ quality = 300
     \/ format = "webp" /\ quality = 600

\* C27: for an over-budget PNG source with format 'original' the request
\* never enters the quality search: no compressImage step runs and the
\* resolution search starts right after the direct fit check.
PngSkipsQualitySearch ==
  (file.type = "image/png" /\ format = "original" /\ file.size > Budget) =>
    /\ pc \notin {"qs_load", "qs_blob", "rs_load", "rs_blob", "df_load"}
    /\ phase \in {"Start", "Resolution"}
    /\ attempt = 0
    /\ quality = 0

PngSkipsQualitySearchWitness ==
  /\ file.type = "image/png"
  /\ format = "original"
  /\ file.size > Budget
  /\ pc = "png_blob"
  /\ attemptCount >= 1

\* C28 as stated: with format 'webp' every success result, the direct fit
\* included, has a file of type image/webp with a .webp name.
WebpAlways ==
  (format = "webp" /\ Returned /\ result.status = "success") =>
    /\ result.file.type = "image/webp"
    /\ result.file.name[2] = "webp"

\* C28 amended: with format 'webp' every success result for an over-budget
\* source has a file of type image/webp named <base>.webp; a source within
\* the budget is returned as it is, with its own type and name.
WebpUnlessDirectFit ==
  (format = "webp" /\ Returned /\ result.status = "success") =>
    IF file.size > Budget
      THEN /\ result.file.type = "image/webp"
           /\ result.file.name = <<file.name[1], "webp">>
      ELSE result.file = file

WebpWitness ==
  /\ format = "webp"
  /\ file.type = "image/png"
  /\ Returned
  /\ result.status = "success"
  /\ phase = "Resolution"
  /\ attemptCount >= 1
  /\ result.file.type = "image/webp"

\* C29: in BatchProcessor allCompleted implies that every image has a
\* processed result, progress 100 and no error.
AllCompletedMeansDone ==
  allCompleted =>
    \A i \in DOMAIN processingImages :
      /\ processingImages[i].processed # NoProcessed
      /\ processingImages[i].progress = 100
      /\ processingImages[i].error = ""

\* C30: in BatchProcessor no entry that is shown as completed (progress 100)
\* holds a processed result whose size exceeds the entry's recorded
\* targetSizeKB * 1024.
ProcessedWithinRecordedTarget ==
  \A i \in DOMAIN processingImages :
    (/\ processingImages[i].progress = 100
     /\ processingImages[i].processed # NoProcessed) =>
      processingImages[i].processed.size
        <= processingImages[i].targetSizeKB * 1024

====
